---- MODULE Spec2Model ----
(***************************************************************************)
(* State-machine model of the select item of                               *)
(* packages/ariakit/src/select/select-item.tsx (useSelectItem).            *)
(*                                                                         *)
(* One item is mounted under one shared select state.  The variables hold  *)
(* the props the caller passes, the shared state, what the last evaluation *)
(* of the hook produced, and a log of what the last event did.             *)
(***************************************************************************)
EXTENDS Naturals, Sequences, FiniteSets

VARIABLES
  props,     \* options and props the caller passed to useSelectItem
  store,     \* the shared select state (value, mounted, contentElement)
  state,     \* what useStore returned to the item at its last evaluation
  rendered,  \* what the last evaluation derived: isSelected, role, children
  registry,  \* the descriptor the last evaluation handed to the composite
  event,     \* the last click or hover event as its handler left it
  calls      \* calls the handler of the last event made, in order

vars == <<props, store, state, rendered, registry, event, calls>>

----------------------------------------------------------------------------
(* Value universe *)

\* undefined: an option that was not passed, a missing element, no value
Absent == "<undefined>"

\* how many of the value names below the items and the state range over
MaxValues == 2

ValueNames == <<"", "Apple", "Orange", "Banana">>

\* present (non-null) values; the empty string is one of them
Values == {ValueNames[i] : i \in 1..MaxValues}

MaybeValues == Values \cup {Absent}

\* BooleanOrCallback<MouseEvent>: a static boolean or a predicate on the event
BooleanOrCallback == {"true", "false", "isAlt", "notAlt"}

\* what props.onClick may be: not passed, a handler that leaves the event
\* alone, a handler that calls event.preventDefault()
ClickHandlers == {Absent, "noop", "preventDefault"}

\* what getItem (the caller's descriptor transform) may be
ItemTransforms == {Absent, "addLabel", "forceValue"}

\* the popup element: none, or an element with this role attribute
ContentElements == {Absent, "norole", "listbox", "tree", "grid", "menu"}

\* the records useCompositeItem passes to getItem
BaseItems == [id : {"item-1", "item-2"}, value : {Absent, "stale"}, label : {"base"}]

MouseEvents == [altKey : BOOLEAN, defaultPrevented : BOOLEAN]

NoEvent == [type |-> "none", altKey |-> FALSE, defaultPrevented |-> FALSE, allowed |-> FALSE]

----------------------------------------------------------------------------
(* Pure parts of the hook *)

itemRoleByPopupRole == [listbox |-> "option", tree |-> "treeitem", grid |-> "gridcell"]

\* the role attribute of the popup element, if it has one
getPopupRole(contentElement) ==
  IF contentElement \in {Absent, "norole"} THEN Absent ELSE contentElement

\* variant: an unmapped popup role is passed through as the item role
getItemRole_PassThrough(contentElement) ==
  LET popupRole == getPopupRole(contentElement) IN
    IF popupRole = Absent THEN Absent
    ELSE IF popupRole \in DOMAIN itemRoleByPopupRole
         THEN itemRoleByPopupRole[popupRole]
         ELSE popupRole

getItemRole(contentElement) ==
  LET popupRole == getPopupRole(contentElement) IN
    IF popupRole = Absent THEN Absent
    ELSE IF popupRole \in DOMAIN itemRoleByPopupRole
         THEN itemRoleByPopupRole[popupRole]
         ELSE Absent

\* variant: hideOnClick = true
hideOnClickDefault_True(p) ==
  IF p.hideOnClick = Absent THEN "true" ELSE p.hideOnClick

\* hideOnClick = value != null
hideOnClickDefault(p) ==
  IF p.hideOnClick = Absent
  THEN (IF p.value # Absent THEN "true" ELSE "false")
  ELSE p.hideOnClick

\* setValueOnClick = value != null
setValueOnClickDefault(p) ==
  IF p.setValueOnClick = Absent
  THEN (IF p.value # Absent THEN "true" ELSE "false")
  ELSE p.setValueOnClick

\* focusOnHover = true
focusOnHoverDefault(p) ==
  IF p.focusOnHover = Absent THEN "true" ELSE p.focusOnHover

\* useBooleanEventCallback: the boolean itself, or the predicate on the event
useBooleanEventCallback(booleanOrCallback, ev) ==
  CASE booleanOrCallback = "true" -> TRUE
    [] booleanOrCallback = "false" -> FALSE
    [] booleanOrCallback = "isAlt" -> ev.altKey
    [] booleanOrCallback = "notAlt" -> ~ev.altKey

\* the caller's getItem applied to a descriptor
getItemProp(transform, item) ==
  CASE transform = "addLabel" -> [item EXCEPT !.label = "custom"]
    [] transform = "forceValue" -> [item EXCEPT !.value = "Forced"]

\* variant: { ...item, value }
nextItem_IgnoreDisabled(p, item) ==
  [item EXCEPT !.value = p.value]

\* { ...item, value: disabled ? undefined : value }
nextItem(p, item) ==
  [item EXCEPT !.value = IF p.disabled THEN Absent ELSE p.value]

\* variant: the caller's transform runs on the base item and the built-in
\* adjustment on its result
getItem_TransformFirst(p, item) ==
  IF p.getItem # Absent
  THEN nextItem(p, getItemProp(p.getItem, item))
  ELSE nextItem(p, item)

getItem(p, item) ==
  IF p.getItem # Absent
  THEN getItemProp(p.getItem, nextItem(p, item))
  ELSE nextItem(p, item)

\* variant: value === state?.value
isSelected_NoNullCheck(p, st) ==
  p.value = (IF st.bound THEN st.value ELSE Absent)

\* value != null && value === state?.value
isSelected(p, st) ==
  p.value # Absent /\ p.value = (IF st.bound THEN st.value ELSE Absent)

----------------------------------------------------------------------------
(* The shared state and the item's view of it *)

Stores == [value : MaybeValues, mounted : BOOLEAN, contentElement : ContentElements]

Unbound == [bound |-> FALSE, value |-> Absent, mounted |-> FALSE, contentElement |-> Absent]

\* state = useStore(state || SelectContext, [...]): the current shared state,
\* or nothing when neither the prop nor the context provides one
useStore(p, s) ==
  IF p.state = Absent THEN Unbound
  ELSE [bound |-> TRUE, value |-> s.value, mounted |-> s.mounted,
        contentElement |-> s.contentElement]

\* the subscription list of useStore: the item is evaluated again when
\* s.value === value, contentElement or mounted changes (setValue and hide
\* are stable functions)
hasChanged(p, prev, next) ==
  \/ (prev.value = p.value) # (next.value = p.value)
  \/ prev.contentElement # next.contentElement
  \/ prev.mounted # next.mounted

\* SelectState.setValue
setValue(s, v) == [s EXCEPT !.value = v]

\* SelectState.hide: the popup closes and unmounts
hide(s) == [s EXCEPT !.mounted = FALSE]

\* the props the element gets: { role: getItemRole(...), children: value, ...props }
Rendered(p, st) ==
  LET derived == getItemRole(IF st.bound THEN st.contentElement ELSE Absent) IN
    [isSelected |-> isSelected(p, st),
     derivedRole |-> derived,
     role |-> IF p.role # Absent THEN p.role ELSE derived,
     children |-> p.value]

\* useCompositeItem registers the item through getItem
Register(p, base) ==
  [base |-> base,
   received |-> nextItem(p, base),
   transformed |-> p.getItem # Absent,
   item |-> getItem(p, base)]

\* the shared state becomes next: subscribers that see a change evaluate again
Notify(next) ==
  /\ store' = next
  /\ IF hasChanged(props, store, next)
     THEN /\ state' = useStore(props, next)
          /\ rendered' = Rendered(props, useStore(props, next))
     ELSE UNCHANGED <<state, rendered>>

----------------------------------------------------------------------------
(* Props *)

DefaultProps ==
  [state |-> "select", value |-> Absent, disabled |-> FALSE, getItem |-> Absent,
   hideOnClick |-> Absent, setValueOnClick |-> Absent, focusOnHover |-> Absent,
   onClick |-> Absent, role |-> Absent]

\* what each prop may be set to
PropDomain ==
  [state |-> {"select", Absent},
   value |-> MaybeValues,
   disabled |-> BOOLEAN,
   getItem |-> ItemTransforms,
   hideOnClick |-> BooleanOrCallback \cup {Absent},
   setValueOnClick |-> BooleanOrCallback \cup {Absent},
   focusOnHover |-> {Absent, "false", "isAlt"},
   onClick |-> ClickHandlers,
   role |-> {Absent, "button"}]

\* the props the click and hover handlers read
DispatchProps ==
  {"state", "value", "disabled", "hideOnClick", "setValueOnClick", "focusOnHover", "onClick"}

\* the props the derived values read
RenderProps == {"state", "value", "disabled", "getItem", "role"}

----------------------------------------------------------------------------
(* Operations *)

\* the component is evaluated with new props
Evaluate(q) ==
  /\ props' = q
  /\ state' = useStore(q, store)
  /\ rendered' = Rendered(q, useStore(q, store))
  /\ registry' = Register(q, registry.base)
  /\ event' = NoEvent
  /\ calls' = <<>>
  /\ UNCHANGED store

\* the caller passes another value for one prop
SetDispatchProps ==
  \E k \in DispatchProps : \E v \in PropDomain[k] :
    v # props[k] /\ Evaluate([props EXCEPT ![k] = v])

SetRenderProps ==
  \E k \in RenderProps : \E v \in PropDomain[k] :
    v # props[k] /\ Evaluate([props EXCEPT ![k] = v])

\* the composite registers the item again with another base record
RegisterItem ==
  \E base \in BaseItems :
    /\ base # registry.base
    /\ registry' = Register(props, base)
    /\ event' = NoEvent
    /\ calls' = <<>>
    /\ UNCHANGED <<props, store, state, rendered>>

\* something other than this item (another item, the keyboard, the select
\* button) changes the shared state
ExternalSetValue ==
  \E v \in MaybeValues :
    /\ v # store.value
    /\ Notify(setValue(store, v))
    /\ event' = NoEvent
    /\ calls' = <<>>
    /\ UNCHANGED <<props, registry>>

SetMounted ==
  /\ Notify([store EXCEPT !.mounted = ~store.mounted])
  /\ event' = NoEvent
  /\ calls' = <<>>
  /\ UNCHANGED <<props, registry>>

SetContentElement ==
  \E el \in ContentElements :
    /\ el # store.contentElement
    /\ Notify([store EXCEPT !.contentElement = el])
    /\ event' = NoEvent
    /\ calls' = <<>>
    /\ UNCHANGED <<props, registry>>

Call(op, arg) == [op |-> op, arg |-> arg]

\* useEventCallback(props.onClick) called with the event: the calls it logs
onClickProp(p) ==
  IF p.onClick = Absent THEN <<>> ELSE <<Call("onClickProp", Absent)>>

\* event.defaultPrevented once props.onClick has returned
defaultPreventedAfter(p, ev) ==
  ev.defaultPrevented \/ p.onClick = "preventDefault"

\* variant: setValueOnClickProp(event) alone guards state?.setValue(value)
clickSetsValue_NoValueCheck(p, st, ev) ==
  /\ useBooleanEventCallback(setValueOnClickDefault(p), ev)
  /\ st.bound

\* does the click handler reach state?.setValue(value)
clickSetsValue(p, st, ev) ==
  /\ useBooleanEventCallback(setValueOnClickDefault(p), ev)
  /\ p.value # Absent
  /\ st.bound

\* does the click handler reach state?.hide()
clickHides(p, st, ev) ==
  /\ useBooleanEventCallback(hideOnClickDefault(p), ev)
  /\ st.bound

\* variant: hide() before setValue(value)
onClickCalls_HideFirst(p, st, ev) ==
  IF defaultPreventedAfter(p, ev) THEN <<>>
  ELSE (IF clickHides(p, st, ev) THEN <<Call("hide", Absent)>> ELSE <<>>)
       \o (IF clickSetsValue(p, st, ev) THEN <<Call("setValue", p.value)>> ELSE <<>>)

\* variant: no return on event.defaultPrevented
onClickCalls_NoAbort(p, st, ev) ==
  (IF clickSetsValue(p, st, ev) THEN <<Call("setValue", p.value)>> ELSE <<>>)
  \o (IF clickHides(p, st, ev) THEN <<Call("hide", Absent)>> ELSE <<>>)

\* the built-in steps of onClick after props.onClick: the calls they make
onClickCalls(p, st, ev) ==
  IF defaultPreventedAfter(p, ev) THEN <<>>
  ELSE (IF clickSetsValue(p, st, ev) THEN <<Call("setValue", p.value)>> ELSE <<>>)
       \o (IF clickHides(p, st, ev) THEN <<Call("hide", Absent)>> ELSE <<>>)

RECURSIVE ApplyCalls(_, _)
\* the shared state after the logged calls, in order
ApplyCalls(s, cs) ==
  IF cs = <<>> THEN s
  ELSE ApplyCalls(
         CASE Head(cs).op = "setValue" -> setValue(s, Head(cs).arg)
           [] Head(cs).op = "hide" -> hide(s)
           [] OTHER -> s,
         Tail(cs))

\* onClick
Click ==
  \E ev \in MouseEvents :
    LET cs == onClickProp(props) \o onClickCalls(props, state, ev) IN
      /\ calls' = cs
      /\ event' = [type |-> "click", altKey |-> ev.altKey,
                   defaultPrevented |-> defaultPreventedAfter(props, ev),
                   allowed |-> FALSE]
      /\ Notify(ApplyCalls(store, cs))
      /\ UNCHANGED <<props, registry>>

\* variant: the callback returns what focusOnHoverProp returns
focusOnHover_IgnoreMounted(p, st, ev) ==
  useBooleanEventCallback(focusOnHoverDefault(p), ev)

\* the focusOnHover callback handed to useCompositeHover
focusOnHover(p, st, ev) ==
  IF ~useBooleanEventCallback(focusOnHoverDefault(p), ev) THEN FALSE
  ELSE st.bound /\ st.mounted

\* a hover event reaches useCompositeHover, which asks focusOnHover
Hover ==
  \E ev \in MouseEvents :
    /\ event' = [type |-> "hover", altKey |-> ev.altKey,
                 defaultPrevented |-> ev.defaultPrevented,
                 allowed |-> focusOnHover(props, state, ev)]
    /\ calls' = <<>>
    /\ UNCHANGED <<props, store, state, rendered, registry>>

----------------------------------------------------------------------------
(* Specifications *)

InitWith(P, B) ==
  /\ props \in P
  /\ store \in {s \in Stores : s.contentElement = "listbox" /\ s.mounted}
  /\ state = useStore(props, store)
  /\ rendered = Rendered(props, state)
  /\ \E base \in B : registry = Register(props, base)
  /\ event = NoEvent
  /\ calls = <<>>

\* clicks and hovers on an item under a listbox popup
Init ==
  InitWith({DefaultProps, [DefaultProps EXCEPT !.value = "Apple"]},
           {[id |-> "item-1", value |-> Absent, label |-> "base"]})

Next ==
  \/ SetDispatchProps
  \/ ExternalSetValue
  \/ SetMounted
  \/ Click
  \/ Hover

Spec == Init /\ [][Next]_vars

\* what an evaluation derives: descriptor, selection flag, role
InitRender ==
  InitWith({DefaultProps, [DefaultProps EXCEPT !.value = "Apple"]}, BaseItems)

NextRender ==
  \/ SetRenderProps
  \/ RegisterItem
  \/ ExternalSetValue
  \/ SetMounted
  \/ SetContentElement
  \/ Click

SpecRender == InitRender /\ [][NextRender]_vars

----------------------------------------------------------------------------
(* Properties *)

IsSetValue(c) == c.op = "setValue"
IsHide(c) == c.op = "hide"
IsBuiltIn(c) == c.op # "onClickProp"
IsOnClickProp(c) == c.op = "onClickProp"

\* how often the last handler called setValue and hide
SetValueCount == Len(SelectSeq(calls, IsSetValue))
HideCount == Len(SelectSeq(calls, IsHide))

\* the calls of the built-in steps alone
BuiltInCalls == SelectSeq(calls, IsBuiltIn)

Clicked == event.type = "click"
Hovered == event.type = "hover"
Bound == props.state # Absent
NoOverrides == props.setValueOnClick = Absent /\ props.hideOnClick = Absent

\* what a configured setValueOnClick / hideOnClick / focusOnHover yields on the
\* last event, written out from the documented defaults
YieldsOn(option, dflt) ==
  LET o == IF option = Absent THEN dflt ELSE option IN
    \/ o = "true"
    \/ o = "isAlt" /\ event.altKey
    \/ o = "notAlt" /\ ~event.altKey

ValueDefault == IF props.value = Absent THEN "false" ELSE "true"

\* C1: a click on an item with a value, bound state, no setValueOnClick or
\* hideOnClick override and an event that is not default-prevented when the
\* caller's handler has returned calls setValue(value) once, hide() once, and
\* setValue before hide.
C1_ClickSelectsThenHides ==
  (Clicked /\ props.value # Absent /\ Bound /\ NoOverrides /\ ~event.defaultPrevented)
    => BuiltInCalls = <<Call("setValue", props.value), Call("hide", Absent)>>

C1_Witness ==
  /\ Clicked /\ props.value = "Apple" /\ Bound /\ NoOverrides
  /\ props.onClick = "noop" /\ ~event.defaultPrevented
  /\ SetValueCount = 1 /\ HideCount = 1
  /\ store.value = "Apple" /\ ~store.mounted

\* C2: the caller's click handler runs first, before any built-in step, and a
\* click whose event is default-prevented when that handler has returned calls
\* neither setValue nor hide, whatever setValueOnClick, hideOnClick and value are.
C2_PreventedClickDoesNothing ==
  Clicked =>
    /\ props.onClick # Absent =>
         /\ calls # <<>>
         /\ Head(calls).op = "onClickProp"
         /\ Len(SelectSeq(calls, IsOnClickProp)) = 1
    /\ event.defaultPrevented => SetValueCount = 0 /\ HideCount = 0

C2_Witness ==
  /\ Clicked /\ event.defaultPrevented /\ props.onClick = "preventDefault"
  /\ props.setValueOnClick = "true" /\ props.hideOnClick = "notAlt" /\ ~event.altKey
  /\ props.value # Absent /\ Bound
  /\ calls = <<Call("onClickProp", Absent)>>

\* C3: with neither setValueOnClick nor hideOnClick passed, both default to
\* false when the item has no value, so a click that is not cancelled calls
\* neither setValue nor hide; with a value both default to true, so such a
\* click (state bound) calls both.
C3_DefaultsFollowValue ==
  (Clicked /\ NoOverrides /\ ~event.defaultPrevented) =>
    /\ props.value = Absent => SetValueCount = 0 /\ HideCount = 0
    /\ (props.value # Absent /\ Bound) => SetValueCount = 1 /\ HideCount = 1

C3_Witness ==
  /\ Clicked /\ NoOverrides /\ ~event.defaultPrevented /\ Bound
  /\ props.value = Absent /\ props.onClick = "noop"
  /\ BuiltInCalls = <<>> /\ store.mounted

\* C4 as stated: the registered descriptor's value is the configured value
\* when the item is not disabled and absent when it is, for every configuration.
C4_Original ==
  registry.item.value = (IF props.disabled THEN Absent ELSE props.value)

\* C4 amended: the descriptor the built-in adjustment produces has the
\* configured value when the item is not disabled and no value when it is; it
\* is the registered descriptor when no custom getItem is passed.  With a custom
\* getItem the registered descriptor is what that transform returns.
C4_AdjustedDescriptorValue ==
  /\ registry.received.value = (IF props.disabled THEN Absent ELSE props.value)
  /\ props.getItem = Absent =>
       registry.item.value = (IF props.disabled THEN Absent ELSE props.value)

C4_Witness ==
  /\ props.disabled /\ props.value = "Apple" /\ props.getItem = Absent
  /\ registry.base.value = "stale"
  /\ registry.item.value = Absent

\* C6: isSelected is true exactly when the item's value is present and equals
\* the shared state's current value; it is false when the value is absent or no
\* state is bound, and nothing else (disabled, clicks) enters into it.
C6_IsSelectedIffValueMatches ==
  rendered.isSelected <=>
    (props.value # Absent /\ Bound /\ props.value = store.value)

C6_Witness ==
  /\ rendered.isSelected /\ props.disabled /\ props.value = "Apple"
  /\ Clicked /\ SetValueCount = 1

\* C7: on every hover event, activation is permitted exactly when focusOnHover
\* yields true on that event and the popup is mounted (state bound) at that
\* time.
C7_HoverNeedsMounted ==
  Hovered =>
    (event.allowed <=>
       (YieldsOn(props.focusOnHover, "true") /\ Bound /\ store.mounted))

C7_Witness ==
  /\ Hovered /\ props.focusOnHover = "isAlt" /\ event.altKey
  /\ Bound /\ ~store.mounted /\ ~event.allowed

\* C8: the derived item role is option under a listbox popup, treeitem under a
\* tree, gridcell under a grid, and none for any other popup role, a popup
\* without role, or no popup element; it is the element's role unless the
\* caller passes one.
C8_RoleFollowsPopupRole ==
  LET el == IF Bound THEN store.contentElement ELSE Absent
      expected == CASE el = "listbox" -> "option"
                    [] el = "tree" -> "treeitem"
                    [] el = "grid" -> "gridcell"
                    [] OTHER -> Absent
  IN /\ rendered.derivedRole = expected
     /\ props.role = Absent => rendered.role = expected

C8_Witness ==
  /\ Bound /\ store.contentElement = "menu"
  /\ rendered.derivedRole = Absent /\ rendered.role = Absent

\* C9: with a custom getItem the built-in adjustment is applied first and the
\* transform to its result: the transform gets the base item with value
\* replaced (the configured value, or absent when disabled) and nothing else
\* changed, and what it returns is the final descriptor; without a custom
\* getItem the adjusted copy is the final descriptor.
C9_TransformWrapsAdjustment ==
  LET adjusted ==
        [id |-> registry.base.id,
         value |-> IF props.disabled THEN Absent ELSE props.value,
         label |-> registry.base.label]
  IN /\ registry.received = adjusted
     /\ props.getItem = Absent => registry.item = adjusted
     /\ props.getItem = "addLabel" => registry.item = [adjusted EXCEPT !.label = "custom"]
     /\ props.getItem = "forceValue" => registry.item = [adjusted EXCEPT !.value = "Forced"]

C9_Witness ==
  /\ props.getItem = "forceValue" /\ props.value = "Apple" /\ ~props.disabled
  /\ registry.base.value = "stale" /\ registry.base.id = "item-2"
  /\ registry.item.value = "Forced" /\ registry.item.id = "item-2"

\* C10 as stated: on a click that is not default-prevented, hide() is called
\* exactly when hideOnClick yields true, and setValue exactly when
\* setValueOnClick yields true and the value is present.
C10_Original ==
  (Clicked /\ ~event.defaultPrevented) =>
    /\ HideCount = 1 <=> YieldsOn(props.hideOnClick, ValueDefault)
    /\ SetValueCount = 1 <=>
         (YieldsOn(props.setValueOnClick, ValueDefault) /\ props.value # Absent)

\* C10 amended: on a click that is not default-prevented and with state bound,
\* the two calls are decided independently: hide() is called exactly when
\* hideOnClick yields true, whether or not setValue was called; setValue is
\* called exactly when setValueOnClick yields true and the value is present,
\* never with an absent value and always with the item's own value.  With no
\* state bound neither is called.
C10_IndependentSideEffects ==
  (Clicked /\ ~event.defaultPrevented) =>
    /\ HideCount \in {0, 1} /\ SetValueCount \in {0, 1}
    /\ Bound =>
         /\ HideCount = 1 <=> YieldsOn(props.hideOnClick, ValueDefault)
         /\ SetValueCount = 1 <=>
              (YieldsOn(props.setValueOnClick, ValueDefault) /\ props.value # Absent)
    /\ ~Bound => HideCount = 0 /\ SetValueCount = 0
    /\ \A i \in 1..Len(calls) :
         calls[i].op = "setValue" => calls[i].arg = props.value /\ calls[i].arg # Absent

C10_Witness ==
  /\ Clicked /\ ~event.defaultPrevented /\ Bound
  /\ props.value = Absent /\ props.setValueOnClick = "true" /\ props.hideOnClick = "isAlt"
  /\ event.altKey
  /\ calls = <<Call("hide", Absent)>> /\ ~store.mounted

====
